---- MODULE Spec2Model ----
(***************************************************************************)
(* BIN lookup service (src/main.py): validator, TTL cache guarded by a     *)
(* lock, two provider clients, normalizer and the per-request              *)
(* orchestration loop of root().                                           *)
(***************************************************************************)
EXTENDS Integers, Sequences, FiniteSets, TLC

(***************************************************************************)
(* Python values.  Every value carries its type tag, so that truthiness,   *)
(* isinstance and attribute errors are decided as Python decides them.     *)
(***************************************************************************)
PyNone == [k |-> "none"]
PyStr(s) == [k |-> "str", s |-> s]
PyBool(b) == [k |-> "bool", b |-> b]
PyInt(n) == [k |-> "int", n |-> n]
PyDict(d) == [k |-> "dict", d |-> d]
PyList(l) == [k |-> "list", l |-> l]

EmptyMap == [x \in {} |-> PyNone]

\* bool(v)
Truthy(v) ==
    CASE v.k = "none" -> FALSE
      [] v.k = "str" -> v.s # ""
      [] v.k = "bool" -> v.b
      [] v.k = "int" -> v.n # 0
      [] v.k = "dict" -> DOMAIN v.d # {}
      [] v.k = "list" -> Len(v.l) > 0

\* a or b
PyOr(a, b) == IF Truthy(a) THEN a ELSE b

\* d.get(key) for a dict d
DictGet(v, key) == IF key \in DOMAIN v.d THEN v.d[key] ELSE PyNone

\* whether v.get exists (otherwise v.get raises AttributeError)
HasGet(v) == v.k = "dict"

\* the result of a call: a returned value or a raised exception
Return(v) == [exc |-> "none", val |-> v, msg |-> ""]
Raise(e, m) == [exc |-> e, val |-> PyNone, msg |-> m]

(***************************************************************************)
(* normalize_binlist_response (lines 46-68).  raw.get, bank.get and        *)
(* country.get raise AttributeError on a value that is not a dict.         *)
(***************************************************************************)
normalize_bank(raw) ==
    LET b0 == PyOr(DictGet(raw, "bank"), PyDict(EmptyMap))
    IN  IF b0.k = "str" THEN PyDict([x \in {"name"} |-> b0]) ELSE b0

normalize_country(raw) == PyOr(DictGet(raw, "country"), PyDict(EmptyMap))

normalize_number(raw) ==
    IF "number" \in DOMAIN raw.d /\ DictGet(raw, "number").k = "dict"
    THEN PyDict([x \in {"length", "luhn"} |->
                    DictGet(DictGet(raw, "number"), x)])
    ELSE PyDict(EmptyMap)

\* Faulty variant: scheme taken from brand before scheme
normalize_out_brand_first(raw) ==
    LET bank == normalize_bank(raw)
        country == normalize_country(raw)
        both == PyOr(PyOr(DictGet(raw, "brand"), DictGet(raw, "scheme")), PyNone)
    IN  PyDict(
          [x \in {"scheme", "brand", "type", "prepaid", "bank", "country", "number"} |->
            CASE x \in {"scheme", "brand"} -> both
              [] x = "type" -> PyOr(DictGet(raw, "type"), PyNone)
              [] x = "prepaid" -> DictGet(raw, "prepaid")
              [] x = "bank" ->
                   PyDict([y \in {"name", "url"} |-> PyOr(DictGet(bank, y), PyNone)])
              [] x = "country" ->
                   PyDict([y \in {"name", "alpha2"} |->
                     IF y = "name" THEN PyOr(DictGet(country, "name"), PyNone)
                     ELSE PyOr(PyOr(DictGet(country, "alpha2"),
                                    DictGet(country, "alpha")), PyNone)])
              [] x = "number" -> normalize_number(raw)])

normalize_out(raw) ==
    LET bank == normalize_bank(raw)
        country == normalize_country(raw)
    IN  PyDict(
          [x \in {"scheme", "brand", "type", "prepaid", "bank", "country", "number"} |->
            CASE x = "scheme" ->
                   PyOr(PyOr(DictGet(raw, "scheme"), DictGet(raw, "brand")), PyNone)
              [] x = "brand" ->
                   PyOr(PyOr(DictGet(raw, "brand"), DictGet(raw, "scheme")), PyNone)
              [] x = "type" -> PyOr(DictGet(raw, "type"), PyNone)
              [] x = "prepaid" ->
                   IF "prepaid" \in DOMAIN raw.d THEN DictGet(raw, "prepaid") ELSE PyNone
              [] x = "bank" ->
                   PyDict([y \in {"name", "url"} |-> PyOr(DictGet(bank, y), PyNone)])
              [] x = "country" ->
                   PyDict([y \in {"name", "alpha2"} |->
                     IF y = "name" THEN PyOr(DictGet(country, "name"), PyNone)
                     ELSE PyOr(PyOr(DictGet(country, "alpha2"),
                                    DictGet(country, "alpha")), PyNone)])
              [] x = "number" -> normalize_number(raw)])

normalize_binlist_response(raw) ==
    IF ~Truthy(raw) THEN Return(PyNone)
    ELSE IF ~HasGet(raw) THEN Raise("AttributeError", "no attribute get")
    ELSE IF ~HasGet(normalize_bank(raw)) THEN Raise("AttributeError", "no attribute get")
    ELSE IF ~HasGet(normalize_country(raw)) THEN Raise("AttributeError", "no attribute get")
    ELSE Return(normalize_out(raw))

(***************************************************************************)
(* What requests.get gives back: a response with a status and a body, or   *)
(* an exception of the transport (timeout, connection error).              *)
(***************************************************************************)
Json(v) == [json |-> TRUE, v |-> v]
Malformed == [json |-> FALSE, v |-> PyNone]
Response(status, body) == [net |-> "ok", status |-> status, body |-> body]
Timeout == [net |-> "timeout", status |-> 0, body |-> Malformed]

\* r.raise_for_status(): HTTPError for 4xx and 5xx, nothing otherwise
raise_for_status(r) == r.status >= 400 /\ r.status < 600

\* r.json(): the decoded body, or JSONDecodeError
response_json(r) ==
    IF r.body.json THEN Return(r.body.v) ELSE Raise("JSONDecodeError", "invalid json")

(***************************************************************************)
(* lookup_bin_binlist (lines 70-82)                                        *)
(***************************************************************************)
lookup_bin_binlist(r) ==
    IF r.net # "ok" THEN Raise("Timeout", "request timed out")
    ELSE IF r.status = 200 THEN response_json(r)
    ELSE IF r.status = 404 THEN Return(PyNone)
    ELSE IF r.status = 429 THEN Raise("RuntimeError", "binlist_rate_limited")
    ELSE IF raise_for_status(r) THEN Raise("HTTPError", "http error")
    ELSE Return(PyNone)

(***************************************************************************)
(* lookup_bin_apininjas (lines 84-107)                                     *)
(***************************************************************************)
apininjas_first(data) ==
    IF data.k = "list" /\ Len(data.l) > 0 THEN data.l[1] ELSE data

apininjas_normalized(data) ==
    PyDict(
      [x \in {"scheme", "brand", "type", "bank", "country"} |->
        CASE x = "scheme" ->
               PyOr(PyOr(DictGet(data, "scheme"), DictGet(data, "brand")),
                    DictGet(data, "type"))
          [] x = "brand" -> PyOr(DictGet(data, "brand"), DictGet(data, "scheme"))
          [] x = "type" -> DictGet(data, "type")
          [] x = "bank" ->
               PyDict([y \in {"name"} |->
                 PyOr(PyOr(DictGet(data, "bank"), DictGet(data, "issuer")),
                      DictGet(data, "brand"))])
          [] x = "country" ->
               PyDict([y \in {"name", "alpha2"} |->
                 IF y = "name" THEN DictGet(data, "country")
                 ELSE DictGet(data, "country_code")])])

lookup_bin_apininjas(r) ==
    IF r.net # "ok" THEN Raise("Timeout", "request timed out")
    ELSE IF r.status = 200 THEN
        LET j == response_json(r)
        IN  IF j.exc # "none" THEN j
            ELSE IF ~HasGet(apininjas_first(j.val))
                 THEN Raise("AttributeError", "no attribute get")
            ELSE Return(apininjas_normalized(apininjas_first(j.val)))
    ELSE IF r.status = 404 THEN Return(PyNone)
    ELSE IF r.status = 429 THEN Raise("RuntimeError", "api_ninjas_rate_limited")
    ELSE IF raise_for_status(r) THEN Raise("HTTPError", "http error")
    ELSE Return(PyNone)

(***************************************************************************)
(* Strings that the code takes apart (the bin parameter, the tokens) are   *)
(* sequences of characters.  "U+0663" stands for the one character         *)
(* ARABIC-INDIC DIGIT THREE, a decimal digit that is not ASCII.            *)
(***************************************************************************)
AsciiDigits == {"0", "1", "2", "3", "4", "5", "6", "7", "8", "9"}
UnicodeDigits == AsciiDigits \cup {"U+0663"}
Whitespace == {" ", "\n", "\t"}

\* BIN_RE = re.compile(r"^\d{6,8}$") (line 24): in a str pattern \d is any
\* Unicode decimal digit, and $ also matches before a final newline.
AllDigits(s) == \A i \in 1..Len(s) : s[i] \in UnicodeDigits

BIN_RE_match(s) ==
    \/ Len(s) \in 6..8 /\ AllDigits(s)
    \/ /\ Len(s) \in 7..9
       /\ s[Len(s)] = "\n"
       /\ AllDigits(SubSeq(s, 1, Len(s) - 1))

\* part.strip() (line 128): what lies between the first and the last
\* character that is not whitespace
Strip(s) ==
    LET ink == {i \in 1..Len(s) : s[i] \notin Whitespace}
    IN  IF ink = {} THEN <<>>
        ELSE SubSeq(s, CHOOSE i \in ink : \A j \in ink : i <= j,
                       CHOOSE i \in ink : \A j \in ink : j <= i)

\* str(b).split(",") (line 127): the parts between the commas, empty ones kept
Split(s) ==
    LET commas == {i \in 1..Len(s) : s[i] = ","}
        \* the k-th cut: position 0, the commas in order, position Len(s) + 1
        cut(k) == IF k = 0 THEN 0
                  ELSE IF k = Cardinality(commas) + 1 THEN Len(s) + 1
                  ELSE CHOOSE i \in commas : Cardinality({j \in commas : j < i}) = k - 1
    IN  [k \in 1..(Cardinality(commas) + 1) |-> SubSeq(s, cut(k - 1) + 1, cut(k) - 1)]

\* lines 127-130 for one parameter value: its stripped, non-empty parts
KeepNonEmpty(parts) ==
    SelectSeq([i \in 1..Len(parts) |-> Strip(parts[i])], LAMBDA val : val # <<>>)

\* lines 125-130: the same over every parameter value, in order
RECURSIVE Flatten(_)
Flatten(bins_param) ==
    IF bins_param = <<>> THEN <<>>
    ELSE KeepNonEmpty(Split(Head(bins_param))) \o Flatten(Tail(bins_param))

\* Faulty variant: no de-duplication, every occurrence kept
Dedup_every_occurrence(flat) == flat

\* lines 131-138: de-duplication, first occurrence kept
Dedup(flat) ==
    LET first == SelectSeq([i \in 1..Len(flat) |-> <<i, flat[i]>>],
                           LAMBDA q : \A j \in 1..(q[1] - 1) : flat[j] # q[2])
    IN  [i \in 1..Len(first) |-> first[i][2]]

(***************************************************************************)
(* The cache (lines 25-44): a dict from BIN to (timestamp, data).          *)
(***************************************************************************)
CACHE_TTL == 24 * 60 * 60

NoEntry == [present |-> FALSE, ts |-> 0, data |-> PyNone]
Entry(ts, data) == [present |-> TRUE, ts |-> ts, data |-> data]

\* _cache.get(bin_str) (line 33)
cache_get(c, key) == IF key \in DOMAIN c THEN c[key] ELSE NoEntry

\* Faulty variant: an entry aged exactly TTL counts as expired
entry_expired_at_ttl(e, t) == t - e.ts >= CACHE_TTL

\* Faulty variant: the operands of the age swapped, so that nothing ever expires
entry_expired_swapped(e, t) == e.ts - t > CACHE_TTL

\* time.time() - ts > CACHE_TTL (line 37)
entry_expired(e, t) == t - e.ts > CACHE_TTL

\* Faulty variant: the expired entry is reported absent but left in the cache
cache_del_kept(c, key) == c

\* del _cache[bin_str] (line 38); KeyError when the key is not there
cache_has(c, key) == key \in DOMAIN c
cache_del(c, key) == [x \in DOMAIN c \ {key} |-> c[x]]

\* Faulty variant: the record is returned to the caller but not stored
cache_put_skipped(c, key, t, data) == c

\* _cache[bin_str] = (time.time(), data) (line 44)
cache_put(c, key, t, data) ==
    [x \in DOMAIN c \cup {key} |-> IF x = key THEN Entry(t, data) ELSE c[x]]

\* Faulty variant: a hit stamps the entry with the time of the read
get_cached_check_refresh(c, key, e, t) ==
    IF ~e.present THEN [ret |-> PyNone, cache |-> c, exc |-> "none"]
    ELSE IF entry_expired(e, t) THEN
        IF cache_has(c, key)
        THEN [ret |-> PyNone, cache |-> cache_del(c, key), exc |-> "none"]
        ELSE [ret |-> PyNone, cache |-> c, exc |-> "KeyError"]
    ELSE [ret |-> e.data, cache |-> cache_put(c, key, t, e.data), exc |-> "none"]

\* lines 34-40 on the entry that line 33 read: what get_cached returns, the
\* cache it leaves, and whether it raised
get_cached_check(c, key, e, t) ==
    IF ~e.present THEN [ret |-> PyNone, cache |-> c, exc |-> "none"]
    ELSE IF entry_expired(e, t) THEN
        IF cache_has(c, key)
        THEN [ret |-> PyNone, cache |-> cache_del(c, key), exc |-> "none"]
        ELSE [ret |-> PyNone, cache |-> c, exc |-> "KeyError"]
    ELSE [ret |-> e.data, cache |-> c, exc |-> "none"]

\* get_cached as one call at time t (lines 31-40, the lock held throughout)
get_cached(c, key, t) == get_cached_check(c, key, cache_get(c, key), t)

\* Faulty variant: "is not None" in place of truthiness, so that an empty string counts
fallback_configured_not_none(key) == key # PyNone

\* if API_NINJAS_KEY: (line 173)
fallback_configured(key) == Truthy(key)

(***************************************************************************)
(* Inputs: the parameter lists a request may carry, the values the         *)
(* fallback credential may have, and the answers a provider may give.      *)
(***************************************************************************)
Bin457173 == <<"4", "5", "7", "1", "7", "3">>
Bin524353 == <<"5", "2", "4", "3", "5", "3">>

\* the i-th of the distinct six-digit tokens 100000, 100001, ...
DigitOf(n) == CHOOSE c \in AsciiDigits : c = ToString(n)
ManyToken(i) ==
    <<"1", "0", "0", DigitOf(i \div 100), DigitOf((i \div 10) % 10), DigitOf(i % 10)>>

\* n distinct tokens in one comma-separated parameter value
ManyParam(n) ==
    [q \in 1..(7 * n - 1) |->
        IF q % 7 = 0 THEN "," ELSE ManyToken(((q - 1) \div 7) + 1)[((q - 1) % 7) + 1]]

MAX_BINS == 100

ParamLists ==
    { <<>>,
      <<Bin457173>>,
      <<Bin457173, Bin457173 \o <<",">> \o Bin524353, Bin524353>>,
      <<<<" ", "1", "2", "a", "b", " ", ",">> \o Bin457173>>,
      <<<<",", ",", " ", ",">>>>,
      <<ManyParam(MAX_BINS + 1)>> }

ApiKeys == {PyNone, PyStr(""), PyStr("secret")}

BodyVisa ==
    PyDict([x \in {"scheme", "brand", "type", "bank", "country"} |->
        CASE x = "scheme" -> PyStr("visa")
          [] x = "brand" -> PyStr("Visa Classic")
          [] x = "type" -> PyStr("debit")
          [] x = "bank" -> PyDict([y \in {"name"} |-> PyStr("Test Bank")])
          [] x = "country" ->
               PyDict([y \in {"name", "alpha2"} |->
                 IF y = "name" THEN PyStr("United States") ELSE PyStr("US")])])

BodyBankString ==
    PyDict([x \in {"brand", "prepaid", "bank", "country", "number"} |->
        CASE x = "brand" -> PyStr("mastercard")
          [] x = "prepaid" -> PyBool(FALSE)
          [] x = "bank" -> PyStr("Other Bank")
          [] x = "country" -> PyDict([y \in {"alpha"} |-> PyStr("DE")])
          [] x = "number" ->
               PyDict([y \in {"length", "luhn"} |->
                 IF y = "length" THEN PyInt(16) ELSE PyBool(TRUE)])])

BodyEmptyObject == PyDict(EmptyMap)

BodyCountryString ==
    PyDict([x \in {"scheme", "country"} |->
        IF x = "scheme" THEN PyStr("visa") ELSE PyStr("US")])

PrimaryResponses ==
    { Response(200, Json(BodyVisa)),
      Response(200, Json(BodyBankString)),
      Response(200, Json(BodyEmptyObject)),
      Response(200, Json(BodyCountryString)),
      Response(200, Malformed),
      Response(204, Malformed),
      Response(304, Malformed),
      Response(404, Malformed),
      Response(429, Malformed),
      Response(500, Malformed),
      Timeout }

NinjasAmex ==
    PyDict([x \in {"brand", "type", "bank", "country", "country_code"} |->
        CASE x = "brand" -> PyStr("amex")
          [] x = "type" -> PyStr("credit")
          [] x = "bank" -> PyStr("Ninja Bank")
          [] x = "country" -> PyStr("Canada")
          [] x = "country_code" -> PyStr("CA")])

NinjasIssuer ==
    PyDict([x \in {"scheme", "issuer"} |->
        IF x = "scheme" THEN PyStr("visa") ELSE PyStr("Issuer Bank")])

FallbackResponses ==
    { Response(200, Json(NinjasAmex)),
      Response(200, Json(PyList(<<NinjasIssuer, NinjasAmex>>))),
      Response(200, Json(PyList(<<>>))),
      Response(200, Malformed),
      Response(204, Malformed),
      Response(304, Malformed),
      Response(404, Malformed),
      Response(429, Malformed),
      Response(500, Malformed),
      Timeout }

NoResponse == [net |-> "none", status |-> 0, body |-> Malformed]

(***************************************************************************)
(* root() (lines 110-200), taken apart into the decisions it makes.        *)
(***************************************************************************)
\* Faulty variant: the limit applied at 100 tokens instead of above 100
root_parse_at_limit(bins_param) ==
    IF bins_param = <<>>
    THEN [status |-> 400, error |-> "missing_parameter", bins |-> <<>>]
    ELSE LET b == Dedup(Flatten(bins_param))
         IN  IF Len(b) >= MAX_BINS
             THEN [status |-> 400, error |-> "too_many_bins", bins |-> <<>>]
             ELSE [status |-> 0, error |-> "", bins |-> b]

\* lines 112-141: the parameter values to the token list, or a 400
root_parse(bins_param) ==
    IF bins_param = <<>>
    THEN [status |-> 400, error |-> "missing_parameter", bins |-> <<>>]
    ELSE LET b == Dedup(Flatten(bins_param))
         IN  IF Len(b) > MAX_BINS
             THEN [status |-> 400, error |-> "too_many_bins", bins |-> <<>>]
             ELSE [status |-> 0, error |-> "", bins |-> b]

Requests == {[params |-> p, parsed |-> root_parse(p)] : p \in ParamLists}

ResultData(data, source) == [data |-> data, source |-> source]
ResultError(error, message) == [error |-> error, message |-> message]

\* Faulty variant: "if raw is not None" in place of "if raw", so that an empty body
\* counts as found
root_primary_not_none(resp) ==
    LET raw == lookup_bin_binlist(resp)
    IN  IF raw.exc # "none" THEN [found |-> FALSE, data |-> PyNone]
        ELSE IF raw.val = PyNone THEN [found |-> FALSE, data |-> PyNone]
        ELSE LET n == normalize_binlist_response(raw.val)
             IN  IF n.exc # "none" THEN [found |-> FALSE, data |-> PyNone]
                 ELSE [found |-> TRUE, data |-> n.val]

\* lines 156-170: the primary's answer to a record to cache, or to nothing
root_primary(resp) ==
    LET raw == lookup_bin_binlist(resp)
    IN  IF raw.exc # "none" THEN [found |-> FALSE, data |-> PyNone]
        ELSE IF ~Truthy(raw.val) THEN [found |-> FALSE, data |-> PyNone]
        ELSE LET n == normalize_binlist_response(raw.val)
             IN  IF n.exc # "none" THEN [found |-> FALSE, data |-> PyNone]
                 ELSE [found |-> TRUE, data |-> n.val]

\* Faulty variant: a not_found of the fallback is written to the cache as well
root_fallback_caches_not_found(resp) ==
    LET raw2 == lookup_bin_apininjas(resp)
    IN  IF raw2.exc = "RuntimeError"
        THEN [found |-> FALSE, data |-> PyNone,
              result |-> ResultError("upstream_rate_limited", raw2.msg)]
        ELSE IF raw2.exc # "none"
        THEN [found |-> FALSE, data |-> PyNone,
              result |-> ResultError("upstream_error", raw2.msg)]
        ELSE IF ~Truthy(raw2.val)
        THEN [found |-> TRUE, data |-> PyNone,
              result |-> ResultError("not_found", "BIN not found in upstream APIs")]
        ELSE LET n == normalize_binlist_response(raw2.val)
             IN  IF n.exc # "none"
                 THEN [found |-> FALSE, data |-> PyNone,
                       result |-> ResultError("upstream_error", n.msg)]
                 ELSE [found |-> TRUE, data |-> n.val,
                       result |-> ResultData(n.val, "api_ninjas")]

\* lines 174-189: the fallback's answer to a record to cache, or to an error
root_fallback(resp) ==
    LET raw2 == lookup_bin_apininjas(resp)
    IN  IF raw2.exc = "RuntimeError"
        THEN [found |-> FALSE, data |-> PyNone,
              result |-> ResultError("upstream_rate_limited", raw2.msg)]
        ELSE IF raw2.exc # "none"
        THEN [found |-> FALSE, data |-> PyNone,
              result |-> ResultError("upstream_error", raw2.msg)]
        ELSE IF ~Truthy(raw2.val)
        THEN [found |-> FALSE, data |-> PyNone,
              result |-> ResultError("not_found", "BIN not found in upstream APIs")]
        ELSE LET n == normalize_binlist_response(raw2.val)
             IN  IF n.exc # "none"
                 THEN [found |-> FALSE, data |-> PyNone,
                       result |-> ResultError("upstream_error", n.msg)]
                 ELSE [found |-> TRUE, data |-> n.val,
                       result |-> ResultData(n.val, "api_ninjas")]

\* line 195
NoFallbackResult ==
    ResultError("not_found_or_upstream_error",
                "Not found or upstream error. Set API_NINJAS_KEY to enable fallback.")

\* line 146
InvalidResult == ResultError("invalid_bin", "BIN must be 6 to 8 digits")

(***************************************************************************)
(* State.  Reqs are the threads serving requests; each runs root().        *)
(***************************************************************************)
Reqs == {"r1", "r2"}

MaxDrift == 1

\* the instants the clock is read at: around time 0 and around one TTL later
Instants == {d + k * CACHE_TTL : d \in 0..MaxDrift, k \in 0..1}

VARIABLES
    cache,      \* _cache: BIN -> Entry
    lock,       \* _cache_lock: "free" or the thread holding it
    now,        \* time.time()
    api_key,    \* API_NINJAS_KEY
    pc,         \* where each thread is in root()
    bins,       \* each thread's token list (line 138)
    idx,        \* position of the loop of line 144 in bins
    results,    \* each thread's results dict
    entry,      \* get_cached's local entry
    inflight,   \* the answer to the provider call a thread is waiting for
    response,   \* what the thread's last request returned
    hist,       \* per BIN, the provider resolutions written within the last TTL
    purges      \* per BIN, the expired entries deleted since the last write

vars == <<cache, lock, now, api_key, pc, bins, idx, results, entry, inflight,
          response, hist, purges>>

EmptyCache == [x \in {} |-> NoEntry]
EmptyResults == [x \in {} |-> InvalidResult]
NoHttp == [status |-> 0, error |-> "", results |-> EmptyResults]

Init ==
    /\ cache = EmptyCache
    /\ lock = "free"
    /\ now = 0
    /\ api_key \in ApiKeys
    /\ pc = [r \in Reqs |-> "idle"]
    /\ bins = [r \in Reqs |-> <<>>]
    /\ idx = [r \in Reqs |-> 1]
    /\ results = [r \in Reqs |-> EmptyResults]
    /\ entry = [r \in Reqs |-> NoEntry]
    /\ inflight = [r \in Reqs |-> NoResponse]
    /\ response = [r \in Reqs |-> NoHttp]
    /\ hist = [x \in {} |-> <<>>]
    /\ purges = [x \in {} |-> 0]

Tok(r) == bins[r][idx[r]]

HistOf(h, key) == IF key \in DOMAIN h THEN h[key] ELSE <<>>
PurgesOf(p, key) == IF key \in DOMAIN p THEN p[key] ELSE 0

\* the resolutions of a history that are at most TTL old at time t
RECURSIVE Recent(_, _)
Recent(hs, t) ==
    IF hs = <<>> THEN <<>>
    ELSE IF t - Head(hs).at > CACHE_TTL THEN Recent(Tail(hs), t)
    ELSE hs

HistPrune(h, t) ==
    LET keep == {x \in DOMAIN h : Recent(h[x], t) # <<>>}
    IN  [x \in keep |-> Recent(h[x], t)]

HistAdd(h, key, t, data) ==
    [x \in DOMAIN h \cup {key} |->
        IF x = key THEN Append(HistOf(h, key), [at |-> t, data |-> data]) ELSE h[x]]

PurgesAdd(p, key) ==
    [x \in DOMAIN p \cup {key} |-> IF x = key THEN PurgesOf(p, key) + 1 ELSE p[x]]

PurgesReset(p, key) == [x \in DOMAIN p \ {key} |-> p[x]]

\* the record of a finished token, and the move to the next one
Record(r, res) ==
    /\ results' = [results EXCEPT ![r] =
                     [x \in DOMAIN results[r] \cup {Tok(r)} |->
                        IF x = Tok(r) THEN res ELSE results[r][x]]]
    /\ idx' = [idx EXCEPT ![r] = idx[r] + 1]
    /\ pc' = [pc EXCEPT ![r] = "loop"]
    /\ inflight' = [inflight EXCEPT ![r] = NoResponse]

\* set_cache (lines 42-44), with the lock taken and released
SetCache(r, data) ==
    /\ lock = "free"
    /\ cache' = cache_put(cache, Tok(r), now, data)
    /\ hist' = HistAdd(hist, Tok(r), now, data)
    /\ purges' = PurgesReset(purges, Tok(r))

\* a request arrives and is parsed (lines 110-143)
Arrive(r, req) ==
    /\ pc[r] = "idle"
    /\ IF req.parsed.status # 0
       THEN /\ response' = [response EXCEPT ![r] =
                    [status |-> req.parsed.status, error |-> req.parsed.error,
                     results |-> EmptyResults]]
            /\ UNCHANGED <<pc, bins>>
       ELSE /\ response' = [response EXCEPT ![r] = NoHttp]
            /\ pc' = [pc EXCEPT ![r] = "loop"]
            /\ bins' = [bins EXCEPT ![r] = req.parsed.bins]
    /\ UNCHANGED <<cache, lock, now, api_key, idx, results, entry, inflight, hist, purges>>

\* the loop is over: jsonify({"results": results}), 200 (line 200)
Finish(r) ==
    /\ pc[r] = "loop"
    /\ idx[r] > Len(bins[r])
    /\ response' = [response EXCEPT ![r] =
            [status |-> 200, error |-> "", results |-> results[r]]]
    /\ pc' = [pc EXCEPT ![r] = "idle"]
    /\ bins' = [bins EXCEPT ![r] = <<>>]
    /\ idx' = [idx EXCEPT ![r] = 1]
    /\ results' = [results EXCEPT ![r] = EmptyResults]
    /\ UNCHANGED <<cache, lock, now, api_key, entry, inflight, hist, purges>>

\* Faulty variant: the "continue" of line 147 left out, so that the invalid token
\* goes on to get_cached
Invalid_no_continue(r) ==
    /\ pc[r] = "loop"
    /\ idx[r] <= Len(bins[r])
    /\ ~BIN_RE_match(Tok(r))
    /\ lock = "free"
    /\ lock' = r
    /\ entry' = [entry EXCEPT ![r] = cache_get(cache, Tok(r))]
    /\ pc' = [pc EXCEPT ![r] = "get_check"]
    /\ results' = [results EXCEPT ![r] =
                     [x \in DOMAIN results[r] \cup {Tok(r)} |->
                        IF x = Tok(r) THEN InvalidResult ELSE results[r][x]]]
    /\ UNCHANGED <<cache, now, api_key, bins, idx, inflight, response, hist, purges>>

\* lines 145-147: a token that BIN_RE does not match
Invalid(r) ==
    /\ pc[r] = "loop"
    /\ idx[r] <= Len(bins[r])
    /\ ~BIN_RE_match(Tok(r))
    /\ Record(r, InvalidResult)
    /\ UNCHANGED <<cache, lock, now, api_key, bins, entry, response, hist, purges>>

\* Faulty variant: the entry read without taking _cache_lock
GetRead_unlocked(r) ==
    /\ pc[r] = "loop"
    /\ idx[r] <= Len(bins[r])
    /\ BIN_RE_match(Tok(r))
    /\ entry' = [entry EXCEPT ![r] = cache_get(cache, Tok(r))]
    /\ pc' = [pc EXCEPT ![r] = "get_check"]
    /\ UNCHANGED <<cache, lock, now, api_key, bins, idx, results, inflight, response,
                   hist, purges>>

\* get_cached, lines 32-33: take the lock, read the entry
GetRead(r) ==
    /\ pc[r] = "loop"
    /\ idx[r] <= Len(bins[r])
    /\ BIN_RE_match(Tok(r))
    /\ lock = "free"
    /\ lock' = r
    /\ entry' = [entry EXCEPT ![r] = cache_get(cache, Tok(r))]
    /\ pc' = [pc EXCEPT ![r] = "get_check"]
    /\ UNCHANGED <<cache, now, api_key, bins, idx, results, inflight, response, hist, purges>>

\* get_cached, lines 34-40, the lock released; then lines 151-157: a hit is
\* recorded, a miss sends the request to the primary provider
GetCheck(r, resp) ==
    /\ pc[r] = "get_check"
    /\ LET g == get_cached_check(cache, Tok(r), entry[r], now)
       IN  /\ cache' = g.cache
           /\ lock' = "free"
           /\ entry' = [entry EXCEPT ![r] = NoEntry]
           /\ purges' = IF cache_has(cache, Tok(r)) /\ ~cache_has(g.cache, Tok(r))
                        THEN PurgesAdd(purges, Tok(r)) ELSE purges
           /\ IF g.exc # "none"
              THEN /\ response' = [response EXCEPT ![r] =
                          [status |-> 500, error |-> g.exc, results |-> EmptyResults]]
                   /\ pc' = [pc EXCEPT ![r] = "idle"]
                   /\ bins' = [bins EXCEPT ![r] = <<>>]
                   /\ idx' = [idx EXCEPT ![r] = 1]
                   /\ results' = [results EXCEPT ![r] = EmptyResults]
                   /\ UNCHANGED inflight
              ELSE IF g.ret # PyNone
              THEN /\ Record(r, ResultData(g.ret, "cache"))
                   /\ UNCHANGED <<bins, response>>
              ELSE /\ pc' = [pc EXCEPT ![r] = "primary"]
                   /\ inflight' = [inflight EXCEPT ![r] = resp]
                   /\ UNCHANGED <<bins, idx, results, response>>
    /\ UNCHANGED <<now, api_key, hist>>

\* Faulty variant: a primary lookup that timed out is tried once more
Primary_retry(r, resp2) ==
    /\ pc[r] = "primary"
    /\ IF inflight[r] = Timeout
       THEN /\ inflight' = [inflight EXCEPT ![r] = Response(404, Malformed)]
            /\ UNCHANGED <<cache, lock, pc, idx, results, hist, purges>>
       ELSE LET p == root_primary(inflight[r])
            IN  IF p.found
                THEN /\ SetCache(r, p.data)
                     /\ Record(r, ResultData(p.data, "binlist"))
                     /\ UNCHANGED lock
                ELSE /\ IF fallback_configured(api_key)
                        THEN /\ pc' = [pc EXCEPT ![r] = "fallback"]
                             /\ inflight' = [inflight EXCEPT ![r] = resp2]
                             /\ UNCHANGED <<idx, results>>
                        ELSE Record(r, NoFallbackResult)
                     /\ UNCHANGED <<cache, lock, hist, purges>>
    /\ UNCHANGED <<now, api_key, bins, entry, response>>

\* lines 156-198: the primary answers
Primary(r, resp2) ==
    /\ pc[r] = "primary"
    /\ LET p == root_primary(inflight[r])
       IN  IF p.found
           THEN /\ SetCache(r, p.data)
                /\ Record(r, ResultData(p.data, "binlist"))
                /\ UNCHANGED lock
           ELSE /\ IF fallback_configured(api_key)
                   THEN /\ pc' = [pc EXCEPT ![r] = "fallback"]
                        /\ inflight' = [inflight EXCEPT ![r] = resp2]
                        /\ UNCHANGED <<idx, results>>
                   ELSE Record(r, NoFallbackResult)
                /\ UNCHANGED <<cache, lock, hist, purges>>
    /\ UNCHANGED <<now, api_key, bins, entry, response>>

\* Faulty variant: the "except Exception" of line 187 left out, so that an
\* unexpected error of the fallback ends the whole request with a 500
Fallback_unhandled(r) ==
    /\ pc[r] = "fallback"
    /\ LET f == root_fallback(inflight[r])
       IN  IF ~f.found /\ f.result.error = "upstream_error"
           THEN /\ response' = [response EXCEPT ![r] =
                       [status |-> 500, error |-> "upstream_error",
                        results |-> EmptyResults]]
                /\ pc' = [pc EXCEPT ![r] = "idle"]
                /\ bins' = [bins EXCEPT ![r] = <<>>]
                /\ idx' = [idx EXCEPT ![r] = 1]
                /\ results' = [results EXCEPT ![r] = EmptyResults]
                /\ inflight' = [inflight EXCEPT ![r] = NoResponse]
                /\ UNCHANGED <<cache, lock, hist, purges>>
           ELSE /\ IF f.found
                   THEN SetCache(r, f.data) /\ UNCHANGED lock
                   ELSE UNCHANGED <<cache, lock, hist, purges>>
                /\ Record(r, f.result)
                /\ UNCHANGED <<bins, response>>
    /\ UNCHANGED <<now, api_key, entry>>

\* lines 174-189: the fallback answers
Fallback(r) ==
    /\ pc[r] = "fallback"
    /\ LET f == root_fallback(inflight[r])
       IN  /\ IF f.found
              THEN SetCache(r, f.data) /\ UNCHANGED lock
              ELSE UNCHANGED <<cache, lock, hist, purges>>
           /\ Record(r, f.result)
    /\ UNCHANGED <<now, api_key, bins, entry, response>>

\* time passes: time.time() reads a later instant
Tick(t) ==
    /\ t > now
    /\ now' = t
    /\ hist' = HistPrune(hist, t)
    /\ UNCHANGED <<cache, lock, api_key, pc, bins, idx, results, entry, inflight,
                   response, purges>>

\* one thread serving one request after the other
Sequential == {"r1"}

Next ==
    \/ \E r \in Sequential : \E req \in Requests : Arrive(r, req)
    \/ \E r \in Sequential : Finish(r)
    \/ \E r \in Sequential : Invalid(r)
    \/ \E r \in Sequential : GetRead(r)
    \/ \E r \in Sequential : \E resp \in PrimaryResponses : GetCheck(r, resp)
    \/ \E r \in Sequential : \E resp2 \in FallbackResponses : Primary(r, resp2)
    \/ \E r \in Sequential : Fallback(r)
    \/ \E t \in Instants : Tick(t)

Spec == Init /\ [][Next]_vars

\* two threads serving requests for one BIN at the same time
ConcRequests == {req \in Requests : req.params = <<Bin457173>>}

NextConc ==
    \/ \E r \in Reqs : \E req \in ConcRequests : Arrive(r, req)
    \/ \E r \in Reqs : Finish(r)
    \/ \E r \in Reqs : GetRead(r)
    \/ \E r \in Reqs : \E resp \in PrimaryResponses : GetCheck(r, resp)
    \/ \E r \in Reqs : \E resp2 \in FallbackResponses : Primary(r, resp2)
    \/ \E r \in Reqs : Fallback(r)
    \/ \E t \in Instants : Tick(t)

SpecConc == Init /\ [][NextConc]_vars

(***************************************************************************)
(* Properties.  A step of thread r on its current token is read off the    *)
(* pair of states: r leaves the place it was at.                           *)
(***************************************************************************)
\* thread r has a token in hand and moves on
Leaves(r, place) == pc[r] = place /\ (pc'[r] # place \/ idx'[r] # idx[r])

\* after the step, thread r's results hold `res` for token tok, and r is
\* back at the loop without a provider call under way
Recorded(r, tok, res) ==
    /\ pc'[r] = "loop"
    /\ inflight'[r] = NoResponse
    /\ tok \in DOMAIN results'[r]
    /\ results'[r][tok] = res

\* a credential is configured: API_NINJAS_KEY holds a non-empty string
Configured == api_key.k = "str" /\ api_key.s # ""

HasData(res) == "data" \in DOMAIN res
HasError(res) == "error" \in DOMAIN res

\* C1 (as stated): once a BIN was resolved by a provider at time t, every
\* lookup of it that reads the cache later, at t' with t' - t <= TTL, is
\* served from the cache with the record resolved at t and calls no provider.
\* hist holds exactly the resolutions that are at most TTL old.
C1_FirstResolvedRecord ==
    [][\A r \in Reqs :
         Leaves(r, "get_check") =>
           \A i \in 1..Len(HistOf(hist, Tok(r))) :
              Recorded(r, Tok(r), ResultData(hist[Tok(r)][i].data, "cache"))]_vars

\* C1 (amended): such a lookup is served from the cache, calls no provider,
\* and carries the record of the latest resolution of the BIN; that is the
\* record resolved at t unless another lookup of the same BIN, already past
\* its own cache check, resolved it again in between.
C1_LatestResolvedRecord ==
    [][\A r \in Reqs :
         (Leaves(r, "get_check") /\ HistOf(hist, Tok(r)) # <<>>) =>
            LET h == hist[Tok(r)]
            IN  /\ Recorded(r, Tok(r), ResultData(h[Len(h)].data, "cache"))
                /\ cache' = cache
                /\ lock' = "free"]_vars

\* C1 witness: a lookup was served from the cache after two lookups of the
\* same BIN had resolved it within one TTL
C1_Witness ==
    \E r \in Reqs : \E tok \in DOMAIN results[r] :
        /\ HasData(results[r][tok])
        /\ results[r][tok].source = "cache"
        /\ Len(HistOf(hist, tok)) = 2
        /\ results[r][tok].data = hist[tok][2].data
        /\ results[r][tok].data # hist[tok][1].data

(***************************************************************************)
(* How the specification reads a provider's answer.                        *)
(***************************************************************************)
IsObject(v) == v.k = "dict"

\* an object whose bank is absent, empty, a string or an object and whose
\* country is absent, empty or an object
ShapedObject(v) ==
    /\ IsObject(v)
    /\ \/ "bank" \notin DOMAIN v.d
       \/ ~Truthy(v.d["bank"])
       \/ v.d["bank"].k \in {"str", "dict"}
    /\ \/ "country" \notin DOMAIN v.d
       \/ ~Truthy(v.d["country"])
       \/ v.d["country"].k = "dict"

Answered(resp, status) == resp.net = "ok" /\ resp.status = status

\* Found / NotFound / RateLimited / Error as section 4.3 assigns them; a body
\* that is no JSON, or no object of the expected shape, is a malformed body
SpecOutcome(resp) ==
    IF resp.net # "ok" THEN "Error"
    ELSE IF resp.status = 200
         THEN IF resp.body.json /\ ShapedObject(resp.body.v) THEN "Found" ELSE "Error"
    ELSE IF resp.status = 404 THEN "NotFound"
    ELSE IF resp.status = 429 THEN "RateLimited"
    ELSE IF resp.status \notin 200..299 THEN "Error"
    ELSE "Unspecified"

\* HTTP 200 with a non-empty object of the expected shape
GoodPrimary(resp) ==
    /\ Answered(resp, 200)
    /\ resp.body.json
    /\ ShapedObject(resp.body.v)
    /\ DOMAIN resp.body.v.d # {}

\* thread r's token was resolved by `source` in this step: the result carries
\* the record, and the cache holds it under the BIN with the current time
ResolvedBy(r, tok, source) ==
    /\ pc'[r] = "loop"
    /\ tok \in DOMAIN results'[r]
    /\ HasData(results'[r][tok])
    /\ results'[r][tok].source = source
    /\ cache_get(cache', tok) = Entry(now, results'[r][tok].data)

\* C2 (as stated): whenever the primary answers HTTP 200 for a valid BIN that
\* missed the cache, the token is resolved by the primary with the normalized
\* body, the cache holds that record, and the fallback is not called.
C2_Every200Resolved ==
    [][\A r \in Reqs :
         (Leaves(r, "primary") /\ Answered(inflight[r], 200)) =>
            /\ ResolvedBy(r, Tok(r), "binlist")
            /\ results'[r][Tok(r)].data = normalize_out(inflight[r].body.v)]_vars

\* C2 (amended): the same whenever the primary answers HTTP 200 with a body
\* that is a non-empty JSON object whose bank is absent, empty, a string or an
\* object and whose country is absent, empty or an object.  For the body of
\* the section 8 scenario the record has scheme visa and bank Test Bank.
C2_GoodBodyResolved ==
    [][\A r \in Reqs :
         (Leaves(r, "primary") /\ GoodPrimary(inflight[r])) =>
            /\ ResolvedBy(r, Tok(r), "binlist")
            /\ inflight'[r] = NoResponse
            /\ results'[r][Tok(r)].data = normalize_out(inflight[r].body.v)
            /\ inflight[r].body.v = BodyVisa =>
                 LET d == results'[r][Tok(r)].data.d
                 IN  /\ d["scheme"] = PyStr("visa")
                     /\ d["brand"] = PyStr("Visa Classic")
                     /\ d["type"] = PyStr("debit")
                     /\ d["prepaid"] = PyNone
                     /\ d["bank"].d["name"] = PyStr("Test Bank")
                     /\ d["bank"].d["url"] = PyNone
                     /\ d["country"].d["name"] = PyStr("United States")
                     /\ d["country"].d["alpha2"] = PyStr("US")]_vars

\* C2 witness: a token resolved by the primary, its record in the cache
C2_Witness ==
    \E r \in Reqs : \E tok \in DOMAIN results[r] :
        /\ HasData(results[r][tok])
        /\ results[r][tok].source = "binlist"
        /\ cache_get(cache, tok) = Entry(now, results[r][tok].data)

\* C3 (as stated): with a credential configured, the fallback is invoked for
\* a BIN that missed the cache exactly when the primary's outcome is NotFound
\* (404), RateLimited (429) or Error, and in no other case.
C3_FallbackOnlyOnListedOutcomes ==
    [][\A r \in Reqs :
         /\ (Leaves(r, "primary") /\ Configured) =>
               (pc'[r] = "fallback" <=>
                  SpecOutcome(inflight[r]) \in {"NotFound", "RateLimited", "Error"})
         /\ (pc'[r] = "fallback" /\ pc[r] # "fallback") => pc[r] = "primary"]_vars

\* C3 (amended): with a credential configured, the fallback is invoked for a
\* BIN that missed the cache exactly when the primary gave no record: on 404,
\* 429, any other status than 200, a timeout, and a 200 whose body is no JSON,
\* is empty or is no object of the expected shape; it is not invoked after a
\* 200 with a non-empty object of that shape, nor for a cache hit or an
\* invalid token.
C3_FallbackWhenNoRecord ==
    [][\A r \in Reqs :
         /\ (Leaves(r, "primary") /\ Configured) =>
               /\ pc'[r] = "fallback" <=> ~GoodPrimary(inflight[r])
               /\ pc'[r] = "fallback" => inflight'[r] \in FallbackResponses
         /\ (pc'[r] = "fallback" /\ pc[r] # "fallback") =>
               (pc[r] = "primary" /\ Configured)]_vars

\* C3 witness: the fallback has been invoked for a BIN that is not cached
C3_Witness ==
    \E r \in Reqs :
        /\ pc[r] = "fallback"
        /\ Configured
        /\ inflight[r] \in FallbackResponses
        /\ ~cache_has(cache, Tok(r))

\* C4: with no credential configured the fallback is never called, and every
\* valid token that missed the cache and whose primary lookup did not answer
\* 200 gets not_found_or_upstream_error; the clean not_found arises only with
\* a credential configured, when the fallback answers 404.
C4_NoFallbackAmbiguousOutcome ==
    [][\A r \in Reqs :
         /\ ~Configured => (pc[r] # "fallback" /\ pc'[r] # "fallback")
         /\ (Leaves(r, "primary") /\ ~Configured /\ ~Answered(inflight[r], 200)) =>
               /\ Recorded(r, Tok(r), NoFallbackResult)
               /\ results'[r][Tok(r)].error = "not_found_or_upstream_error"
               /\ cache' = cache
         /\ (Leaves(r, "fallback") /\ Answered(inflight[r], 404)) =>
               /\ Configured
               /\ Tok(r) \in DOMAIN results'[r]
               /\ HasError(results'[r][Tok(r)])
               /\ results'[r][Tok(r)].error = "not_found"
               /\ results'[r][Tok(r)] # NoFallbackResult
         /\ \A tok \in DOMAIN results'[r] :
               HasError(results'[r][tok]) =>
                 /\ results'[r][tok].error = "not_found" => Configured
                 /\ results'[r][tok].error = "not_found_or_upstream_error" => ~Configured]_vars

\* C4 witness: no credential, the primary answered 404 or 429 or failed, and
\* the token got the ambiguous outcome
C4_Witness ==
    \E r \in Reqs : \E tok \in DOMAIN results[r] :
        /\ ~Configured
        /\ results[r][tok] = NoFallbackResult
        /\ BIN_RE_match(tok)
        /\ ~cache_has(cache, tok)

\* the record a fallback body carries: the object itself, or the first
\* element of a non-empty sequence
IsSequence(v) == v.k = "list"
FirstRecord(v) == IF IsSequence(v) /\ Len(v.l) > 0 THEN v.l[1] ELSE v

RecordBody(resp) ==
    /\ Answered(resp, 200)
    /\ resp.body.json
    /\ IsObject(FirstRecord(resp.body.v))

\* a fallback failure other than 404 and 429: another non-2xx status, a
\* timeout, a body that is no JSON
OtherFailure(resp) ==
    \/ resp.net # "ok"
    \/ resp.status \notin (200..299) \cup {404, 429}
    \/ resp.status = 200 /\ ~resp.body.json

\* C5: when the primary gave no record and the configured fallback answers
\* HTTP 200 with a record, the token is resolved with source api_ninjas, the
\* cache holds the normalized record under the BIN, and a lookup up to TTL
\* later is served from the cache.
C5_FallbackRecordResolved ==
    [][\A r \in Reqs :
         (Leaves(r, "fallback") /\ RecordBody(inflight[r])) =>
            LET first == FirstRecord(inflight[r].body.v)
            IN  /\ Configured
                /\ ResolvedBy(r, Tok(r), "api_ninjas")
                /\ inflight'[r] = NoResponse
                /\ LET data == results'[r][Tok(r)].data
                   IN  /\ data = normalize_out(apininjas_normalized(first))
                       /\ \A t \in {now, now + CACHE_TTL} :
                            get_cached(cache', Tok(r), t) =
                               [ret |-> data, cache |-> cache', exc |-> "none"]
                       /\ first = NinjasAmex =>
                            /\ data.d["scheme"] = PyStr("amex")
                            /\ data.d["brand"] = PyStr("amex")
                            /\ data.d["type"] = PyStr("credit")
                            /\ data.d["bank"].d["name"] = PyStr("Ninja Bank")
                            /\ data.d["country"].d["name"] = PyStr("Canada")
                            /\ data.d["country"].d["alpha2"] = PyStr("CA")
                       /\ first = NinjasIssuer =>
                            /\ data.d["scheme"] = PyStr("visa")
                            /\ data.d["bank"].d["name"] = PyStr("Issuer Bank")]_vars

\* C5 witness: a token resolved by the fallback, its record in the cache
C5_Witness ==
    \E r \in Reqs : \E tok \in DOMAIN results[r] :
        /\ HasData(results[r][tok])
        /\ results[r][tok].source = "api_ninjas"
        /\ cache_get(cache, tok) = Entry(now, results[r][tok].data)

\* the error a token got in this step, "" when it got a record
ErrorGiven(r, tok) ==
    IF tok \in DOMAIN results'[r] /\ HasError(results'[r][tok])
    THEN results'[r][tok].error ELSE ""

\* C6: the fallback's outcome maps one-to-one to the token's result: 404 gives
\* not_found, 429 gives upstream_rate_limited, any other failure (other
\* non-2xx status, timeout, malformed body) gives upstream_error with a
\* message, and none of the three is produced by another fallback outcome.
C6_FallbackOutcomeOneToOne ==
    [][\A r \in Reqs :
         Leaves(r, "fallback") =>
            LET e == ErrorGiven(r, Tok(r))
            IN  /\ Answered(inflight[r], 404) <=> e = "not_found"
                /\ Answered(inflight[r], 429) <=> e = "upstream_rate_limited"
                /\ (OtherFailure(inflight[r]) \/
                      (Answered(inflight[r], 200) /\ ~RecordBody(inflight[r])))
                     <=> e = "upstream_error"
                /\ e = "upstream_error" => results'[r][Tok(r)].message # ""]_vars

\* C7: from an HTTP 200 sequence of objects only the first element is used as
\* the record; an HTTP 200 empty sequence gives the clean not_found and
\* writes nothing to the cache.
C7_EmptySequenceNotFound ==
    [][\A r \in Reqs :
         (Leaves(r, "fallback") /\ Answered(inflight[r], 200)
            /\ inflight[r].body.json /\ IsSequence(inflight[r].body.v)) =>
            IF Len(inflight[r].body.v.l) > 0
            THEN /\ ResolvedBy(r, Tok(r), "api_ninjas")
                 /\ results'[r][Tok(r)].data =
                       normalize_out(apininjas_normalized(inflight[r].body.v.l[1]))
            ELSE /\ ErrorGiven(r, Tok(r)) = "not_found"
                 /\ cache' = cache]_vars

\* the entry for key exists and is at most TTL old now
Live(key) == cache_has(cache, key) /\ now - cache[key].ts <= CACHE_TTL

\* the entry for key exists and is older than TTL now
Stale(key) == cache_has(cache, key) /\ now - cache[key].ts > CACHE_TTL

\* thread r's get returned absent: it goes on to call the primary
Absent(r) == pc'[r] = "primary" /\ inflight'[r] \in PrimaryResponses /\ results'[r] = results[r]

\* C8: get(key) at time now returns the stored record if and only if an entry
\* for key exists with now - createdAt <= TTL (an entry aged exactly TTL is
\* still returned); otherwise it returns absent, and an entry older than TTL
\* is no longer in the cache after the call, the other entries untouched.
C8_GetReturnsLiveEntry ==
    [][\A r \in Reqs :
         Leaves(r, "get_check") =>
            /\ Live(Tok(r)) =>
                 /\ Recorded(r, Tok(r), ResultData(cache[Tok(r)].data, "cache"))
                 /\ cache' = cache
            /\ ~Live(Tok(r)) =>
                 /\ Absent(r)
                 /\ ~cache_has(cache', Tok(r))
                 /\ \A key \in DOMAIN cache \ {Tok(r)} :
                       cache_get(cache', key) = cache[key]
                 /\ DOMAIN cache' = DOMAIN cache \ {Tok(r)}]_vars

\* C8 witness: one entry has been purged on access and not written again,
\* and a token was served from an entry aged exactly TTL
C8_Witness ==
    \E r \in Reqs : \E tok \in DOMAIN results[r] : \E old \in DOMAIN purges :
        /\ purges[old] = 1
        /\ ~cache_has(cache, old)
        /\ HasData(results[r][tok])
        /\ results[r][tok].source = "cache"
        /\ cache_has(cache, tok)
        /\ now - cache[tok].ts = CACHE_TTL

\* C9: expiry is idempotent.  A get on an entry older than TTL returns absent
\* without an error and removes the entry; a further get on that key with no
\* put in between returns absent without an error and leaves the cache
\* unchanged; the entry is removed exactly once.
C9_ExpiryIdempotent ==
    [][\A r \in Reqs :
         /\ \A key \in DOMAIN purges' : purges'[key] <= 1
         /\ Leaves(r, "get_check") =>
              /\ response'[r] = response[r]
              /\ Stale(Tok(r)) =>
                   /\ Absent(r)
                   /\ ~cache_has(cache', Tok(r))
                   /\ PurgesOf(purges, Tok(r)) = 0
                   /\ PurgesOf(purges', Tok(r)) = 1
              /\ PurgesOf(purges, Tok(r)) >= 1 =>
                   /\ ~cache_has(cache, Tok(r))
                   /\ Absent(r)
                   /\ cache' = cache
                   /\ purges' = purges]_vars

\* C9 witness: both threads got absent for the same key, whose expired entry
\* was removed once and not written since: one get removed it, the other
\* came after
C9_Witness ==
    /\ \A r \in Reqs : pc[r] = "primary" /\ Tok(r) = Bin457173
    /\ PurgesOf(purges, Bin457173) = 1
    /\ ~cache_has(cache, Bin457173)

\* C10: a token that fails validation gets invalid_bin; the step reads no
\* cache entry, takes no lock, writes and purges nothing, calls no provider,
\* and leaves the cache as it was.
C10_InvalidTouchesNothing ==
    [][\A r \in Reqs :
         (Leaves(r, "loop") /\ idx[r] <= Len(bins[r]) /\ ~BIN_RE_match(Tok(r))) =>
            /\ Recorded(r, Tok(r), InvalidResult)
            /\ results'[r][Tok(r)].error = "invalid_bin"
            /\ idx'[r] = idx[r] + 1
            /\ cache' = cache
            /\ lock' = lock
            /\ entry' = entry
            /\ hist' = hist
            /\ purges' = purges
            /\ ~cache_has(cache, Tok(r))]_vars

\* C10 witness: an invalid token has been recorded next to a valid one that
\* went through the cache
C10_Witness ==
    \E r \in Reqs : \E bad \in DOMAIN results[r] : \E good \in DOMAIN results[r] :
        /\ ~BIN_RE_match(bad)
        /\ results[r][bad] = InvalidResult
        /\ BIN_RE_match(good)
        /\ HasData(results[r][good])

(***************************************************************************)
(* Requests that probe the validator and the size limit: one token around  *)
(* the limits of BIN_RE per request, and batches of 100 and 101 distinct   *)
(* tokens.  Both providers answer 404 here, so that nothing is cached.     *)
(***************************************************************************)
\* n ASCII digits 1, 2, 3, ...
Digits(n) == [i \in 1..n |-> DigitOf(i % 10)]

\* a letter, a separator, a blank, and a decimal digit that is not ASCII
OddCharacters == {"a", "-", " ", "U+0663"}

ValidatorTokens ==
    {Digits(n) : n \in 5..9}
      \cup {[i \in 1..n |-> "U+0663"] : n \in 5..9}
      \cup UNION {{[Digits(n) EXCEPT ![p] = c] : p \in {1, 3, n}, c \in OddCharacters} :
                    n \in 6..8}

TokenLists ==
    {<<t>> : t \in ValidatorTokens}
      \cup { <<ManyParam(MAX_BINS)>>,
             <<ManyParam(MAX_BINS), ManyToken(1)>>,
             <<ManyParam(MAX_BINS + 1)>> }

TokenRequests == {[params |-> p, parsed |-> root_parse(p)] : p \in TokenLists}

NotFoundOnly == {Response(404, Malformed)}

NextTokens ==
    \/ \E r \in Sequential : \E req \in TokenRequests : Arrive(r, req)
    \/ \E r \in Sequential : Finish(r)
    \/ \E r \in Sequential : Invalid(r)
    \/ \E r \in Sequential : GetRead(r)
    \/ \E r \in Sequential : \E resp \in NotFoundOnly : GetCheck(r, resp)
    \/ \E r \in Sequential : \E resp2 \in NotFoundOnly : Primary(r, resp2)
    \/ \E r \in Sequential : Fallback(r)

SpecTokens == Init /\ [][NextTokens]_vars

\* exactly 6, 7 or 8 characters, each one of the ASCII digits 0-9
AsciiBin(s) == Len(s) \in 6..8 /\ \A i \in 1..Len(s) : s[i] \in AsciiDigits

\* thread r decides on the token in hand: it records it or goes on to the cache
Validates(r) == Leaves(r, "loop") /\ idx[r] <= Len(bins[r])

\* C11: the validator accepts a token if and only if it consists of exactly
\* 6, 7 or 8 ASCII digits: an accepted token goes on to the cache lookup,
\* and every other token, one with a digit that is not ASCII included, is
\* recorded as invalid_bin.
C11_AcceptsIffAsciiDigits ==
    [][\A r \in Reqs :
         Validates(r) =>
            IF AsciiBin(Tok(r))
            THEN pc'[r] = "get_check"
            ELSE Recorded(r, Tok(r), InvalidResult)]_vars

\* the distinct non-empty tokens that a list of parameter values holds
DistinctTokens(params) ==
    LET flat == Flatten(params) IN {flat[i] : i \in 1..Len(flat)}

\* the probing requests, each with the number of distinct tokens it holds
CountedRequests ==
    {[params |-> q.params, parsed |-> q.parsed,
      distinct |-> Cardinality(DistinctTokens(q.params))] : q \in TokenRequests}

\* the whole-request rejection of line 141
TooManyResponse == [status |-> 400, error |-> "too_many_bins", results |-> EmptyResults]

\* C12: a request with more than 100 distinct tokens is rejected as a whole
\* with too_many_bins: no token is taken up for validation or lookup, no
\* provider is called, the cache is left unchanged and no result mapping is
\* returned; a request with 100 or fewer distinct tokens is not rejected
\* with that error.
C12_TooManyRejectedWhole ==
    [][\A r \in Reqs : \A req \in CountedRequests :
         Arrive(r, req) =>
            IF req.distinct > 100
            THEN /\ response'[r] = TooManyResponse
                 /\ pc'[r] = "idle"
                 /\ bins'[r] = <<>>
                 /\ results'[r] = EmptyResults
                 /\ inflight'[r] = NoResponse
                 /\ cache' = cache
                 /\ lock' = lock
                 /\ hist' = hist
            ELSE /\ response'[r].error # "too_many_bins"
                 /\ req.distinct > 0 =>
                      /\ pc'[r] = "loop"
                      /\ Len(bins'[r]) = req.distinct]_vars

\* C12 witness: a request of 101 distinct tokens has been rejected, nothing
\* cached and no token in hand
C12_Witness ==
    /\ response["r1"] = TooManyResponse
    /\ pc["r1"] = "idle"
    /\ bins["r1"] = <<>>
    /\ cache = EmptyCache

\* thread r answers its request in this step
Answers(r) == response'[r] # response[r] /\ response'[r] # NoHttp

\* C13: a request that supplied zero valid tokens is rejected with a
\* request-level error: when the bin parameter is missing, when it is empty
\* or holds only commas and whitespace, and when every token fails
\* validation, the answer is an error and not a result mapping.
C13_NoValidTokenRejected ==
    [][\A r \in Reqs :
         /\ (Answers(r) /\ pc[r] = "idle") => response'[r].status = 400
         /\ (Answers(r) /\ pc[r] = "loop"
               /\ \A i \in 1..Len(bins[r]) : ~AsciiBin(bins[r][i])) =>
                 /\ response'[r].status # 200
                 /\ response'[r].error # ""]_vars

\* the first position at which token t occurs in a list of tokens
FirstAt(seq, t) ==
    CHOOSE i \in 1..Len(seq) : seq[i] = t /\ \A j \in 1..(i - 1) : seq[j] # t

\* the parameter values of the de-duplication example
RepeatedParams == <<Bin457173, Bin457173 \o <<",">> \o Bin524353, Bin524353>>

\* C14: the processed token list holds every distinct non-empty trimmed
\* token of the parameter values exactly once, in the order of first
\* occurrence ("457173", "457173,524353", "524353" give 457173 then 524353),
\* and a request takes each token up once: a token is never looked up again
\* after it got its outcome.
C14_DedupFirstSeenOnce ==
    [][\A r \in Reqs :
         /\ \A req \in Requests :
              (Arrive(r, req) /\ pc'[r] = "loop") =>
                 LET flat == Flatten(req.params)
                     b == bins'[r]
                 IN  /\ {b[i] : i \in 1..Len(b)} = DistinctTokens(req.params)
                     /\ \A i \in 1..Len(b) : b[i] # <<>> /\ Strip(b[i]) = b[i]
                     /\ \A i \in 1..Len(b) : \A j \in 1..Len(b) :
                          i < j => /\ b[i] # b[j]
                                   /\ FirstAt(flat, b[i]) < FirstAt(flat, b[j])
                     /\ req.params = RepeatedParams => b = <<Bin457173, Bin524353>>
         /\ Validates(r) =>
              /\ Tok(r) \notin DOMAIN results[r]
              /\ \A i \in 1..(idx[r] - 1) : bins[r][i] \in DOMAIN results[r]
         /\ (pc[r] # "idle" /\ pc'[r] # "idle") =>
              /\ bins'[r] = bins[r]
              /\ idx'[r] \in {idx[r], idx[r] + 1}
              /\ DOMAIN results[r] \subseteq DOMAIN results'[r]]_vars

\* C14 witness: the example request has had its two tokens processed, in
\* first-seen order, each with one outcome
C14_Witness ==
    \E r \in Reqs :
        /\ bins[r] = <<Bin457173, Bin524353>>
        /\ idx[r] = 3
        /\ DOMAIN results[r] = {Bin457173, Bin524353}

\* the tokens of thread r's batch
Batch(r) == {bins[r][i] : i \in 1..Len(bins[r])}

\* C15: per-token failures are isolated.  Whatever a provider answers for
\* the token in hand (404, 429, another status, a timeout, a malformed or
\* unexpectedly shaped body), the request is not aborted: the token gets its
\* outcome or goes on to the fallback, the outcomes of the other tokens stay
\* as they are, and the answer is a 200 whose mapping holds exactly one
\* outcome for every distinct token of the batch.
C15_FailuresIsolated ==
    [][\A r \in Reqs :
         /\ (pc[r] \in {"get_check", "primary", "fallback"} /\ Leaves(r, pc[r])) =>
              /\ pc'[r] \in {"loop", "primary", "fallback"}
              /\ response'[r] = response[r]
              /\ bins'[r] = bins[r]
              /\ \A tok \in DOMAIN results[r] :
                    tok \in DOMAIN results'[r] /\ results'[r][tok] = results[r][tok]
              /\ IF pc'[r] = "loop"
                 THEN /\ idx'[r] = idx[r] + 1
                      /\ DOMAIN results'[r] = DOMAIN results[r] \cup {Tok(r)}
                      /\ HasData(results'[r][Tok(r)]) # HasError(results'[r][Tok(r)])
                 ELSE /\ idx'[r] = idx[r]
                      /\ results'[r] = results[r]
         /\ (Answers(r) /\ pc[r] = "loop") =>
              /\ response'[r].status = 200
              /\ DOMAIN response'[r].results = Batch(r)
              /\ response'[r].results = results[r]]_vars

\* C15 witness: a batch was answered with an upstream error for one token
\* and a record for another
C15_Witness ==
    \E r \in Reqs : \E bad \in DOMAIN response[r].results :
      \E good \in DOMAIN response[r].results :
        /\ response[r].status = 200
        /\ HasError(response[r].results[bad])
        /\ response[r].results[bad].error = "upstream_error"
        /\ HasData(response[r].results[good])
        /\ response[r].results[good].source # "cache"

\* a dict with exactly the given keys
DictOf(v, keys) == IsObject(v) /\ DOMAIN v.d = keys

\* scheme, brand, type, prepaid, bank{name,url}, country{name,alpha2},
\* number{length,luhn}: every field present, the missing ones as None
FullyShaped(v) ==
    /\ DictOf(v, {"scheme", "brand", "type", "prepaid", "bank", "country", "number"})
    /\ DictOf(v.d["bank"], {"name", "url"})
    /\ DictOf(v.d["country"], {"name", "alpha2"})
    /\ DictOf(v.d["number"], {"length", "luhn"})

\* the primary answered HTTP 200 with a JSON object: an input map
InputMap(resp) == Answered(resp, 200) /\ resp.body.json /\ IsObject(resp.body.v)

\* C16: the normalizer is total: for any input map, the empty map, a map
\* with bank as a plain string and a map with no country included, it
\* returns without raising a fully shaped record in which every field
\* missing from the input is present as an absent value.
C16_NormalizerTotal ==
    [][\A r \in Reqs :
         (Leaves(r, "primary") /\ InputMap(inflight[r])) =>
            LET n == normalize_binlist_response(inflight[r].body.v)
            IN  /\ n.exc = "none"
                /\ FullyShaped(n.val)]_vars

\* the outcomes that carry no record
NegativeOutcomes ==
    {"invalid_bin", "not_found", "upstream_rate_limited", "upstream_error",
     "not_found_or_upstream_error"}

\* thread r's lookup of the token in hand ends in this step
EndsLookup(r) ==
    /\ pc[r] \in {"loop", "get_check", "primary", "fallback"}
    /\ idx[r] <= Len(bins[r])
    /\ idx'[r] = idx[r] + 1

FreshToken(r) ==
    /\ Tok(r) \notin DOMAIN results[r]
    /\ \A i \in 1..(idx[r] - 1) : bins[r][i] # Tok(r) /\ bins[r][i] \in DOMAIN results[r]

\* C18: within one request each provider is called at most once per distinct
\* token, the primary before the fallback, and the fallback never without
\* the primary.  A primary call is made only from the cache miss of a token
\* without an outcome; a fallback call only from the primary's answer for
\* that same token; the answer of a call is never replaced by a second call;
\* after the chain the token has its outcome and keeps it.
C18_OneCallPerProvider ==
    [][\A r \in Reqs :
         /\ (pc'[r] = "primary" /\ pc[r] # "primary") =>
               /\ pc[r] = "get_check"
               /\ idx'[r] = idx[r]
               /\ FreshToken(r)
               /\ inflight[r] = NoResponse
               /\ inflight'[r] \in PrimaryResponses
         /\ (pc'[r] = "fallback" /\ pc[r] # "fallback") =>
               /\ pc[r] = "primary"
               /\ idx'[r] = idx[r]
               /\ FreshToken(r)
               /\ inflight'[r] \in FallbackResponses
         /\ (pc[r] \in {"primary", "fallback"} /\ pc'[r] = pc[r]) =>
               /\ inflight'[r] = inflight[r]
               /\ idx'[r] = idx[r]
         /\ (pc[r] \in {"primary", "fallback"} /\ pc'[r] # pc[r]) =>
               \/ pc[r] = "primary" /\ pc'[r] = "fallback"
               \/ /\ pc'[r] = "loop"
                  /\ idx'[r] = idx[r] + 1
                  /\ Tok(r) \in DOMAIN results'[r]
                  /\ inflight'[r] = NoResponse
         /\ pc[r] \notin {"primary", "fallback"} =>
               (inflight[r] = NoResponse /\ (pc'[r] # "primary" => inflight'[r] = NoResponse))
         /\ pc'[r] # "idle" => DOMAIN results[r] \subseteq DOMAIN results'[r]]_vars

\* C18 witness: the second token of a batch is at the fallback, after the
\* primary was asked for it, the first token having its outcome
C18_Witness ==
    \E r \in Reqs :
        /\ pc[r] = "fallback"
        /\ idx[r] = 2
        /\ bins[r][1] \in DOMAIN results[r]
        /\ Tok(r) \notin DOMAIN results[r]
        /\ inflight[r] \in FallbackResponses

\* a complete (timestamp, record) pair as one set_cache writes it
CompletePair(e) ==
    /\ e.present
    /\ e.ts \in Instants
    /\ DictOf(e.data, {"scheme", "brand", "type", "prepaid", "bank", "country", "number"})

\* C19: under any interleaving of the gets and puts of two requests, the
\* check-expire-delete sequence of get is one critical section: at most one
\* thread is inside it, holding the lock, and the entry it read stays the
\* cache's entry until it is done; a get on an expired entry returns absent
\* and never fails on an already deleted key; the entry is deleted once;
\* and what a get reads is no entry or a complete pair of a single put.
C19_GetIsCriticalSection ==
    [][\A r \in Reqs :
         /\ \A q \in Reqs : (pc[r] = "get_check" /\ pc[q] = "get_check") => q = r
         /\ pc[r] = "get_check" <=> lock = r
         /\ pc[r] = "get_check" =>
               /\ entry[r] = cache_get(cache, Tok(r))
               /\ (pc'[r] = "get_check" => cache' = cache)
         /\ (pc'[r] = "get_check" /\ pc[r] # "get_check") =>
               /\ lock = "free"
               /\ entry'[r] = NoEntry \/ CompletePair(entry'[r])
               /\ \A key \in DOMAIN cache : CompletePair(cache[key])
         /\ Leaves(r, "get_check") =>
               /\ get_cached_check(cache, Tok(r), entry[r], now).exc = "none"
               /\ response'[r] = response[r]
               /\ lock' = "free"
               /\ (entry[r].present /\ now - entry[r].ts > CACHE_TTL) =>
                     /\ Absent(r)
                     /\ ~cache_has(cache', Tok(r))
                     /\ PurgesOf(purges', Tok(r)) = 1
               /\ ~entry[r].present =>
                     /\ Absent(r)
                     /\ cache' = cache
                     /\ purges' = purges]_vars

\* C19 witness: one thread is inside get with the expired entry in hand
\* while the other waits at its own get on the same key
C19_Witness ==
    \E r \in Reqs : \E q \in Reqs \ {r} :
        /\ pc[r] = "get_check"
        /\ lock = r
        /\ entry[r].present
        /\ now - entry[r].ts > CACHE_TTL
        /\ pc[q] = "loop"
        /\ idx[q] <= Len(bins[q])
        /\ Tok(q) = Tok(r)

\* thread r's token is served from the cache in this step
ServedFromCache(r) ==
    /\ Leaves(r, "get_check")
    /\ pc'[r] = "loop"
    /\ Tok(r) \in DOMAIN results'[r]
    /\ HasData(results'[r][Tok(r)])
    /\ results'[r][Tok(r)].source = "cache"

\* C20: cache reads never extend an entry's lifetime.  A get that hits
\* leaves the entry's timestamp and record unchanged; every record returned
\* with source cache was written after a provider's 200 for that BIN at most
\* TTL earlier, however often it was read since; and the timestamp of an
\* entry changes only when a thread that missed resolves the BIN anew.
C20_ReadsDoNotExtendLifetime ==
    [][\A r \in Reqs :
         /\ ServedFromCache(r) =>
              /\ cache' = cache
              /\ hist' = hist
              /\ \E i \in 1..Len(HistOf(hist, Tok(r))) :
                    LET h == hist[Tok(r)][i]
                    IN  /\ h.data = results'[r][Tok(r)].data
                        /\ h.at = cache[Tok(r)].ts
                        /\ h.at <= now
                        /\ now - h.at <= CACHE_TTL
         /\ \A key \in DOMAIN cache \cap DOMAIN cache' :
              cache'[key].ts # cache[key].ts =>
                 \E q \in Reqs :
                    /\ pc[q] \in {"primary", "fallback"}
                    /\ Tok(q) = key
                    /\ Answered(inflight[q], 200)
                    /\ EndsLookup(q)
                    /\ results'[q][key].source \in {"binlist", "api_ninjas"}
                    /\ cache'[key] = Entry(now, results'[q][key].data)]_vars

\* C20 witness: both threads hold a record served from the cache for the
\* same BIN, read exactly one TTL after it was written at time 0
C20_Witness ==
    /\ now = CACHE_TTL
    /\ cache_has(cache, Bin457173)
    /\ cache[Bin457173].ts = 0
    /\ \A r \in Reqs :
          /\ Bin457173 \in DOMAIN results[r]
          /\ results[r][Bin457173] = ResultData(cache[Bin457173].data, "cache")

====
